---------------------------- MODULE Spec2Model ----------------------------
(***************************************************************************)
(* The tree-rewriting pipeline of calvin/csparser/codegen.py: CodeGen.run  *)
(* collects the local components, expands them (Expander), rewrites        *)
(* implicit ports (ImplicitPortRewrite), flattens the blocks (Flatten),    *)
(* resolves the port maps and emits the application manifest (AppInfo).    *)
(*                                                                         *)
(* The AST is a tree of records.  Every node has a kind; inner nodes have  *)
(* their ordered children in ch.  A node reference of the program is a     *)
(* path: the sequence of child indices from the root.  A qualified name    *)
(* 'a:b:c' is the sequence of its segments <<"a","b","c">>, so that        *)
(* ':'.join is concatenation and the separators of a name are counted by   *)
(* its length; the empty name <<>> stands for None and for ''.             *)
(***************************************************************************)
EXTENDS Integers, Sequences, FiniteSets, TLC

VARIABLES
    params,            \* the parameters of the script handed to CodeGen
    root,              \* CodeGen.root, the AST, rewritten in place
    pc,                \* the position of CodeGen.run
    local_components,  \* CodeGen.local_components: name -> reference
    hist,              \* the tree as each pass left it, by position
    counter,           \* ImplicitPortRewrite.counter
    constants,         \* Flatten.constants
    printed,           \* the symbols of the WARNING lines printed
    issues,            \* the diagnostics handed back to the caller
    app_info           \* CodeGen.app_info; NoInfo until it is assigned

vars == <<params, root, pc, local_components, hist, counter, constants,
          printed, issues, app_info>>

----------------------------------------------------------------------------
(* Bounds of the model *)

\* the deepest chain of nested components a script of the model has
MaxDepth == 3
\* the most literal links a script of the model has at top level
MaxLit == 2
\* the interpreter's recursion limit, counted in nested expansions
MaxRecursion == 4

----------------------------------------------------------------------------
(* astnode: the nodes of the tree *)

Block(namespace, args, program) ==
    [kind |-> "Block", namespace |-> namespace, args |-> args, ch |-> program]

Component(name, program) ==
    [kind |-> "Component", name |-> name, ch |-> <<Block(<<>>, <<>>, program)>>]

Assignment(ident, actor_type, args) ==
    [kind |-> "Assignment", ident |-> ident, actor_type |-> actor_type, ch |-> args]

Id(ident) == [kind |-> "Id", ident |-> ident]

Value(value) == [kind |-> "Value", value |-> value]

NamedArg(ident, arg) == [kind |-> "NamedArg", ch |-> <<ident, arg>>]

Constant(ident, arg) == [kind |-> "Constant", ch |-> <<ident, arg>>]

Link(outport, inport) == [kind |-> "Link", ch |-> <<outport, inport>>]

Port(actor, port) == [kind |-> "Port", actor |-> actor, port |-> port]

InPort(actor, port) == [kind |-> "InPort", actor |-> actor, port |-> port]

OutPort(actor, port) == [kind |-> "OutPort", actor |-> actor, port |-> port]

InternalInPort(port) == [kind |-> "InternalInPort", actor |-> <<>>, port |-> port]

InternalOutPort(port) == [kind |-> "InternalOutPort", actor |-> <<>>, port |-> port]

ImplicitPort(arg) == [kind |-> "ImplicitPort", ch |-> <<arg>>]

\* the root the parser hands over: a plain container with an empty args map
Node(children) == [kind |-> "Node", args |-> <<>>, ch |-> children]

LeafKinds == {"Id", "Value", "Port", "InPort", "OutPort",
              "InternalInPort", "InternalOutPort"}

PortKinds == {"Port", "InPort", "OutPort", "InternalInPort", "InternalOutPort"}

is_leaf(node) == node.kind \in LeafKinds

\* the node a path refers to
RECURSIVE NodeAt(_, _)
NodeAt(node, path) ==
    IF path = <<>> THEN node ELSE NodeAt(node.ch[Head(path)], Tail(path))

\* the tree with the node at path replaced
RECURSIVE replace_child(_, _, _)
replace_child(node, path, new) ==
    IF path = <<>> THEN new
    ELSE [node EXCEPT !.ch[Head(path)] = replace_child(@, Tail(path), new)]

Parent(path) == SubSeq(path, 1, Len(path) - 1)

\* Link.outport and Link.inport are the link's first and second child
outport(link) == link.ch[1]
inport(link) == link.ch[2]

\* the concatenation of a sequence of sequences
RECURSIVE Flat(_)
Flat(ss) == IF ss = <<>> THEN <<>> ELSE Head(ss) \o Flat(Tail(ss))

\* the members of s at the positions in keep, in order
SelectIdx(s, keep) ==
    LET RECURSIVE Sel(_)
        Sel(i) == IF i > Len(s) THEN <<>>
                  ELSE (IF i \in keep THEN <<s[i]>> ELSE <<>>) \o Sel(i + 1)
    IN Sel(1)

Range(s) == {s[i] : i \in DOMAIN s}

\* the mapping with map[key] = value
Put(map, key, value) ==
    [k \in DOMAIN map \cup {key} |-> IF k = key THEN value ELSE map[k]]

----------------------------------------------------------------------------
(* Finder *)

\* Node.matches: the kind is the node's own, and every attribute agrees
matches(node, kind, attributes) ==
    /\ node.kind = kind
    /\ \A key \in DOMAIN attributes :
          key \in DOMAIN node /\ node[key] = attributes[key]

\* Finder.visit: the paths of the matching nodes, in pre-order, at most
\* maxdepth levels below the node at path
RECURSIVE FinderVisit(_, _, _, _, _)
FinderVisit(node, path, kind, attributes, levels) ==
    (IF matches(node, kind, attributes) THEN <<path>> ELSE <<>>)
    \o (IF ~is_leaf(node) /\ levels > 0
        THEN Flat([i \in DOMAIN node.ch |->
                    FinderVisit(node.ch[i], Append(path, i), kind, attributes,
                                levels - 1)])
        ELSE <<>>)

DefaultMaxDepth == 1024

find_all(tree, kind, attributes, maxdepth) ==
    FinderVisit(tree, <<>>, kind, attributes, maxdepth)

query(tree, kind, attributes, maxdepth) == find_all(tree, kind, attributes, maxdepth)

NoAttributes == <<>>

----------------------------------------------------------------------------
(* The scripts of the model: the ASTs the parser hands to CodeGen *)

ScriptName == "s"

\* the actor types the actor store knows
KnownActorTypes == {"std.Identity", "std.Constant", "std.Counter", "io.Print"}

\* the scripts differ in what the passes can tell apart: a reversed order
\* needs two components, a fan-out needs one, and a script with a recursive
\* or a pass-through component varies in nothing else but its depth
Params ==
    {p \in [depth : 0..MaxDepth,   \* the components K1 .. Kdepth nest in a chain
            rev   : BOOLEAN,       \* the components are defined in reverse order
            fan   : BOOLEAN,       \* the inner inport feeds two actors
            lit   : 0..MaxLit,     \* the literal links at top level
            arg   : {"value", "const", "unbound"},    \* the argument handed down
            leaf  : {"std.Identity", "foo.Unknown"},  \* the type of the inner actor
            extra : {"none", "self", "mutual", "pass"}] :
        /\ p.rev => p.depth >= 2
        /\ p.fan => p.depth >= 1
        /\ p.extra # "none" =>
              ~p.rev /\ ~p.fan /\ p.lit = 0 /\ p.arg = "value"
              /\ p.leaf = "std.Identity"}

CompName(j) == "K" \o ToString(j)

ParamName(j) == IF j % 2 = 1 THEN "x" ELSE "y"

\* the argument of the top-level instance: a literal, the constant K, or
\* (in a script without components) the unbound symbol u
TopArg(p) ==
    CASE p.arg = "const" -> Id("K")
      [] p.arg = "unbound" /\ p.depth = 0 -> Id("u")
      [] OTHER -> Value(7)

\* the argument of the inner actor of Kj: its parameter, or the unbound u
LeafArg(p, j) == IF p.arg = "unbound" THEN Id("u") ELSE Id(ParamName(j))

\* i: <leaf>(a=<arg>) [j: std.Identity()]
LeafActors(p, arg) ==
    <<Assignment(<<"i">>, p.leaf, <<NamedArg(Id("a"), arg)>>)>>
    \o (IF p.fan THEN <<Assignment(<<"j">>, "std.Identity", <<>>)>> ELSE <<>>)

\* component Kj(x) in -> out { n: Kj+1(y=x); .in > n.in; n.out > .out }, and
\* the innermost { i: <leaf>(a=x); .in > i.in; [.in > j.in;] i.out > .out;
\* [5 > i.in] }
CompBody(j, p) ==
    IF j < p.depth
    THEN <<Assignment(<<"n">>, CompName(j + 1),
                      <<NamedArg(Id(ParamName(j + 1)), Id(ParamName(j)))>>),
           Link(InternalOutPort("in"), InPort(<<"n">>, "in")),
           Link(OutPort(<<"n">>, "out"), InternalInPort("out"))>>
    ELSE LeafActors(p, LeafArg(p, j))
         \o <<Link(InternalOutPort("in"), InPort(<<"i">>, "in"))>>
         \o (IF p.fan THEN <<Link(InternalOutPort("in"), InPort(<<"j">>, "in"))>>
                      ELSE <<>>)
         \o <<Link(OutPort(<<"i">>, "out"), InternalInPort("out"))>>
         \o (IF p.lit > 0 THEN <<Link(ImplicitPort(Value(5)), InPort(<<"i">>, "in"))>>
                          ELSE <<>>)

ChainComponents(p) ==
    [k \in 1..p.depth |->
        LET j == IF p.rev THEN p.depth + 1 - k ELSE k
        IN Component(CompName(j), CompBody(j, p))]

ExtraComponents(p) ==
    CASE p.extra = "self" ->
           <<Component("R", <<Assignment(<<"r">>, "R", <<>>)>>)>>
      [] p.extra = "mutual" ->
           <<Component("A", <<Assignment(<<"b">>, "B", <<>>)>>),
             Component("B", <<Assignment(<<"a">>, "A", <<>>)>>)>>
      [] p.extra = "pass" ->
           <<Component("P", <<Link(InternalOutPort("in"), InternalInPort("out"))>>)>>
      [] OTHER -> <<>>

ExtraProgram(p) ==
    CASE p.extra = "mutual" -> <<Assignment(<<"q">>, "A", <<>>)>>
      [] p.extra = "pass" ->
           <<Assignment(<<"t">>, "P", <<>>),
             Link(OutPort(<<"src">>, "out"), InPort(<<"t">>, "in")),
             Link(OutPort(<<"t">>, "out"), InPort(<<"dst">>, "in"))>>
      [] OTHER -> <<>>

Program(p) ==
    <<Assignment(<<"src">>, "std.Counter", <<>>),
      Assignment(<<"dst">>, "io.Print", <<>>)>>
    \o (IF p.lit > 0 THEN <<Link(ImplicitPort(Value(41)), InPort(<<"dst">>, "in"))>>
                     ELSE <<>>)
    \o (IF p.depth = 0
        THEN <<Assignment(<<"c">>, p.leaf, <<NamedArg(Id("a"), TopArg(p))>>)>>
        ELSE <<Assignment(<<"c">>, CompName(1),
                          <<NamedArg(Id(ParamName(1)), TopArg(p))>>)>>)
    \o <<Link(OutPort(<<"src">>, "out"), InPort(<<"c">>, "in")),
         Link(OutPort(<<"c">>, "out"), InPort(<<"dst">>, "in"))>>
    \o [k \in 1..(p.lit - 1) |->
          Link(ImplicitPort(Value(41 + k)), InPort(<<"dst">>, "in"))]
    \o ExtraProgram(p)

\* script : opt_constdefs opt_compdefs opt_program
Script(p) ==
    Node((IF p.arg = "const" THEN <<Constant(Id("K"), Value(9))>> ELSE <<>>)
         \o ChainComponents(p) \o ExtraComponents(p) \o Program(p))

----------------------------------------------------------------------------
(* Expander *)

\* the exception the interpreter raises when its stack is exhausted
RuntimeError == [kind |-> "RuntimeError", ch |-> <<>>]

\* new.args = {x.children[0].ident: x.children[1] for x in args}
ArgsOf(args) ==
    [key \in {args[i].ch[1].ident : i \in DOMAIN args} |->
        LET last == CHOOSE i \in DOMAIN args :
                       /\ args[i].ch[1].ident = key
                       /\ \A k \in DOMAIN args : args[k].ch[1].ident = key => k <= i
        IN args[last].ch[2]]

\* Expander.visit without the recursion into the cloned block
RECURSIVE ExpanderVisitShallow(_, _, _, _)
ExpanderVisitShallow(node, components, tree, depth) ==
    IF node.kind = "Assignment"
    THEN IF node.actor_type \notin DOMAIN components
         THEN node
         ELSE LET block == NodeAt(tree, components[node.actor_type]).ch[1]
              IN [block EXCEPT !.namespace = node.ident, !.args = ArgsOf(node.ch)]
    ELSE IF is_leaf(node)
    THEN node
    ELSE [node EXCEPT !.ch = [i \in DOMAIN node.ch |->
                        ExpanderVisitShallow(node.ch[i], components, tree, depth)]]

\* Expander.visit.  components maps a name to the path of its definition in
\* tree; the body is cloned from the definition as the tree holds it.  depth
\* counts the expansions the interpreter's stack still has room for: with none
\* left the recursion ends in the interpreter's RuntimeError.
RECURSIVE ExpanderVisit(_, _, _, _)
ExpanderVisit(node, components, tree, depth) ==
    IF node.kind = "Assignment"
    THEN IF node.actor_type \notin DOMAIN components
         THEN node
         ELSE IF depth = 0
         THEN RuntimeError
         ELSE LET block == NodeAt(tree, components[node.actor_type]).ch[1]
                  new == [block EXCEPT !.namespace = node.ident,
                                       !.args = ArgsOf(node.ch)]
              IN [new EXCEPT !.ch = [i \in DOMAIN new.ch |->
                        ExpanderVisit(new.ch[i], components, tree, depth - 1)]]
    ELSE IF is_leaf(node)
    THEN node
    ELSE [node EXCEPT !.ch = [i \in DOMAIN node.ch |->
                        ExpanderVisit(node.ch[i], components, tree, depth)]]

\* expander.visit(self.root): the children of the root one after the other,
\* each against the tree the earlier visits have left
RECURSIVE ExpandFrom(_, _, _, _)
ExpandFrom(tree, components, i, depth) ==
    IF i > Len(tree.ch) THEN tree
    ELSE ExpandFrom([tree EXCEPT !.ch[i] =
                        ExpanderVisit(tree.ch[i], components, tree, depth)],
                    components, i + 1, depth)

Expand(tree, components) == ExpandFrom(tree, components, 1, MaxRecursion)

Raised(tree) == query(tree, "RuntimeError", NoAttributes, DefaultMaxDepth) # <<>>

----------------------------------------------------------------------------
(* ImplicitPortRewrite *)

\* the name formed before the counter is incremented
const_name_early(n) == "_literal_const_" \o ToString(n - 1)

\* const_name = '_literal_const_'+str(self.counter)
const_name(n) == "_literal_const_" \o ToString(n)

const_actor(n, const_value) ==
    Assignment(<<const_name(n)>>, "std.Constant",
               <<NamedArg(Id("data"), const_value), NamedArg(Id("n"), Value(-1))>>)

const_actor_port(n) == Port(<<const_name(n)>>, "token")

\* ImplicitPortRewrite.visit over the children ch[i..] of a node, the counter
\* at n.  ch: the children as the visit leaves them; up: the actors added to
\* the node's parent (the block of a link whose implicit port is rewritten);
\* own: the actors the visits of the children add to the node itself.
RECURSIVE ImplicitVisit(_, _), ImplicitChildren(_, _, _)
ImplicitChildren(ch, i, n) ==
    IF i > Len(ch)
    THEN [ch |-> <<>>, counter |-> n, up |-> <<>>, own |-> <<>>]
    ELSE IF ch[i].kind = "ImplicitPort"
    THEN LET rest == ImplicitChildren(ch, i + 1, n + 1)
         IN [ch |-> <<const_actor_port(n + 1)>> \o rest.ch,
             counter |-> rest.counter,
             up |-> <<const_actor(n + 1, ch[i].ch[1])>> \o rest.up,
             own |-> rest.own]
    ELSE LET r == ImplicitVisit(ch[i], n)
             rest == ImplicitChildren(ch, i + 1, r.counter)
         IN [ch |-> <<r.node>> \o rest.ch,
             counter |-> rest.counter,
             up |-> rest.up,
             own |-> r.up \o rest.own]

ImplicitVisit(node, n) ==
    IF is_leaf(node)
    THEN [node |-> node, counter |-> n, up |-> <<>>]
    ELSE LET r == ImplicitChildren(node.ch, 1, n)
         IN [node |-> [node EXCEPT !.ch = r.ch \o r.own],
             counter |-> r.counter, up |-> r.up]

----------------------------------------------------------------------------
(* Flatten *)

\* ':'.join(names)
Join(names) == Flat(names)

\* the keys of a mapping, in the order the mapping is iterated
RECURSIVE KeysOf(_)
KeysOf(S) == IF S = {} THEN <<>>
             ELSE LET k == CHOOSE k \in S : TRUE IN <<k>> \o KeysOf(S \ {k})

\* the arguments of a block left as the Expander bound them
BlockArgsKept(args, keys, parent, out) == [args |-> args, printed |-> out]

\* Flatten.visit(Block), the arguments: an Id is looked up in the parent block
RECURSIVE BlockArgs(_, _, _, _)
BlockArgs(args, keys, parent, out) ==
    IF keys = <<>> THEN [args |-> args, printed |-> out]
    ELSE LET key == Head(keys)
             value_node == args[key]
         IN IF value_node.kind = "Id"
            THEN IF value_node.ident \notin DOMAIN parent.args
                 THEN BlockArgs(args, Tail(keys), parent,
                                Append(out, value_node.ident))
                 ELSE BlockArgs([args EXCEPT ![key] = parent.args[value_node.ident]],
                                Tail(keys), parent, out)
            ELSE BlockArgs(args, Tail(keys), parent, out)

\* Flatten.visit(NamedArg): an Id is looked up in the grandparent block, then
\* in the constants
FlattenNamedArg(node, block, consts, out) ==
    LET value_node == node.ch[2]
    IN IF value_node.kind = "Id"
       THEN LET key == value_node.ident
            IN IF key \notin DOMAIN block.args
               THEN IF key \notin DOMAIN consts
                    THEN [node |-> node, printed |-> Append(out, key)]
                    ELSE [node |-> [node EXCEPT !.ch[2] = consts[key]],
                          printed |-> out]
               ELSE [node |-> [node EXCEPT !.ch[2] = block.args[key]],
                     printed |-> out]
       ELSE [node |-> node, printed |-> out]

\* Flatten.visit(Port)
FlattenPort(node, stack) ==
    IF node.actor # <<>>
    THEN [node EXCEPT !.actor = Join(stack \o <<node.actor>>)]
    ELSE [node EXCEPT !.actor = Join(stack)]

\* the identifier joined without the assignment's own name
FlattenIdentStackOnly(ident, stack) == Join(stack)

\* Flatten.visit(Assignment), the identifier
FlattenIdent(ident, stack) == Join(Append(stack, ident))

\* the namespace stack inside a block
PushNamespace(stack, namespace) ==
    IF namespace # <<>> THEN Append(stack, namespace) ELSE stack

\* Flatten.visit of node, a child of parent, itself a child of grand.
\* nodes: what stands in the node's place afterwards (nothing for a block);
\* moved: the children a dissolved block adds to the end of its parent.
RECURSIVE FlattenVisit(_, _, _, _, _, _), FlattenChildren(_, _, _, _, _, _, _)
FlattenChildren(ch, i, parent, grand, stack, consts, out) ==
    IF i > Len(ch)
    THEN [nodes |-> <<>>, moved |-> <<>>, constants |-> consts, printed |-> out]
    ELSE LET r == FlattenVisit(ch[i], parent, grand, stack, consts, out)
             rest == FlattenChildren(ch, i + 1, parent, grand, stack,
                                     r.constants, r.printed)
         IN [nodes |-> r.nodes \o rest.nodes,
             moved |-> r.moved \o rest.moved,
             constants |-> rest.constants,
             printed |-> rest.printed]

FlattenVisit(node, parent, grand, stack, consts, out) ==
    CASE node.kind = "Constant" ->
           [nodes |-> <<node>>, moved |-> <<>>,
            constants |-> Put(consts, node.ch[1].ident, node.ch[2]),
            printed |-> out]
      [] node.kind = "Assignment" ->
           LET r == FlattenChildren(node.ch, 1, node, parent, stack, consts, out)
           IN [nodes |-> <<[node EXCEPT !.ident = FlattenIdent(node.ident, stack),
                                        !.ch = r.nodes \o r.moved]>>,
               moved |-> <<>>, constants |-> r.constants, printed |-> r.printed]
      [] node.kind = "NamedArg" ->
           LET r == FlattenNamedArg(node, grand, consts, out)
           IN [nodes |-> <<r.node>>, moved |-> <<>>,
               constants |-> consts, printed |-> r.printed]
      [] node.kind \in PortKinds ->
           [nodes |-> <<FlattenPort(node, stack)>>, moved |-> <<>>,
            constants |-> consts, printed |-> out]
      [] node.kind = "Block" ->
           LET a == BlockArgs(node.args, KeysOf(DOMAIN node.args), parent, out)
               block == [node EXCEPT !.args = a.args]
               r == FlattenChildren(node.ch, 1, block, parent,
                                    PushNamespace(stack, node.namespace),
                                    consts, a.printed)
           IN [nodes |-> <<>>, moved |-> r.nodes \o r.moved,
               constants |-> r.constants, printed |-> r.printed]
      [] OTHER ->
           IF is_leaf(node)
           THEN [nodes |-> <<node>>, moved |-> <<>>,
                 constants |-> consts, printed |-> out]
           ELSE LET r == FlattenChildren(node.ch, 1, node, parent, stack, consts, out)
                IN [nodes |-> <<[node EXCEPT !.ch = r.nodes \o r.moved]>>,
                    moved |-> <<>>, constants |-> r.constants, printed |-> r.printed]

\* flattener.visit(self.root), the stack and the constants empty
Flatten(tree) == FlattenVisit(tree, tree, tree, <<>>, <<>>, <<>>)

----------------------------------------------------------------------------
(* Resolve portmaps *)

\* for p in ps: p.parent.inport = iop.parent.inport.clone()
\* (side = 2), p.parent.outport = iip.parent.outport.clone() (side = 1);
\* ip and the ps are references, the link of ip is read as the tree holds it
RECURSIVE Splice(_, _, _, _)
Splice(tree, ip, ps, side) ==
    IF ps = <<>> THEN tree
    ELSE Splice(replace_child(tree, Append(Parent(Head(ps)), side),
                              NodeAt(tree, Parent(ip)).ch[side]),
                ip, Tail(ps), side)

\* for iop in iops: ps = self.query(..., {'actor':iop.actor, 'port':iop.port})
RECURSIVE ResolveEach(_, _, _, _)
ResolveEach(tree, ips, kind, side) ==
    IF ips = <<>> THEN tree
    ELSE LET ip == NodeAt(tree, Head(ips))
             ps == query(tree, kind, [actor |-> ip.actor, port |-> ip.port],
                         DefaultMaxDepth)
         IN ResolveEach(Splice(tree, Head(ips), ps, side), Tail(ips), kind, side)

ResolveInternalOutPorts(tree) ==
    ResolveEach(tree, query(tree, "InternalOutPort", NoAttributes, DefaultMaxDepth),
                "InPort", 2)

\* the second loop querying the kind of the first
ResolveInternalInPortsAsIn(tree) ==
    ResolveEach(tree, query(tree, "InternalInPort", NoAttributes, DefaultMaxDepth),
                "InPort", 1)

ResolveInternalInPorts(tree) ==
    ResolveEach(tree, query(tree, "InternalInPort", NoAttributes, DefaultMaxDepth),
                "OutPort", 1)

\* the links of the internal outports alone
InternalLinksOutOnly(tree) ==
    LET ips == query(tree, "InternalOutPort", NoAttributes, DefaultMaxDepth)
    IN [i \in DOMAIN ips |-> Parent(ips[i])]

\* the links of  for ip in query(InternalOutPort) + query(InternalInPort)
InternalLinks(tree) ==
    LET ips == query(tree, "InternalOutPort", NoAttributes, DefaultMaxDepth)
               \o query(tree, "InternalInPort", NoAttributes, DefaultMaxDepth)
    IN [i \in DOMAIN ips |-> Parent(ips[i])]

\* ip.parent.delete() on a link an earlier round has deleted (both its ends
\* are internal ports): the link has no parent any more, and Node.delete
\* either raises or leaves the tree alone
DeletedTwice(links) ==
    \E i, k \in DOMAIN links : i # k /\ links[i] = links[k]

\* the tree without the nodes at paths
RECURSIVE RemovePaths(_, _, _)
RemovePaths(node, path, paths) ==
    IF is_leaf(node) THEN node
    ELSE LET kept == SelectIdx([i \in DOMAIN node.ch |-> i],
                               {i \in DOMAIN node.ch : Append(path, i) \notin paths})
         IN [node EXCEPT !.ch = [k \in DOMAIN kept |->
                RemovePaths(node.ch[kept[k]], Append(path, kept[k]), paths)]]

DeleteInternalLinks(tree) == RemovePaths(tree, <<>>, Range(InternalLinks(tree)))

----------------------------------------------------------------------------
(* AppInfo *)

\* ActorStore.lookup: (found, is_actor, actor_class)
NoClass == [found |-> FALSE, inport_names |-> <<>>, outport_names |-> <<>>]

ActorClass(actor_type) ==
    CASE actor_type = "std.Constant" ->
           [found |-> TRUE, inport_names |-> <<>>, outport_names |-> <<"token">>]
      [] actor_type = "std.Counter" ->
           [found |-> TRUE, inport_names |-> <<>>, outport_names |-> <<"out">>]
      [] actor_type = "io.Print" ->
           [found |-> TRUE, inport_names |-> <<"in">>, outport_names |-> <<>>]
      [] OTHER ->
           [found |-> TRUE, inport_names |-> <<"in">>, outport_names |-> <<"out">>]

lookup(actor_type) ==
    IF actor_type \in KnownActorTypes THEN ActorClass(actor_type) ELSE NoClass

\* GlobalStore.actor_signature: a function of the descriptor, nothing else
_create_signature(actor_class, actor_type) ==
    [is_primitive |-> TRUE, actor_type |-> actor_type,
     inports |-> actor_class.inport_names, outports |-> actor_class.outport_names]

\* "{}:{}".format(namespace, node.ident)
ActorKey(namespace, ident) == <<namespace>> \o ident

\* "{}:{}.{}".format(namespace, port.actor, port.port)
PortKey(namespace, port) == [actor |-> <<namespace>> \o port.actor, port |-> port.port]

\* the NamedArgs of an assignment; arg_val.value is read of every one
NamedArgs(node) == SelectIdx(node.ch, {i \in DOMAIN node.ch : node.ch[i].kind = "NamedArg"})

AppInfoArgs(named) ==
    [key \in {named[i].ch[1].ident : i \in DOMAIN named} |->
        LET last == CHOOSE i \in DOMAIN named :
                       /\ named[i].ch[1].ident = key
                       /\ \A k \in DOMAIN named : named[k].ch[1].ident = key => k <= i
        IN named[last].ch[2].value]

\* AppInfo.visit(Assignment) raises AttributeError: an argument that is no
\* Value has no value, and the class of a type the store does not know is None
AssignmentRaises(node) ==
    \/ \E i \in DOMAIN node.ch :
          node.ch[i].kind = "NamedArg" /\ node.ch[i].ch[2].kind # "Value"
    \/ ~lookup(node.actor_type).found

AppInfoAssignment(info, node) ==
    [info EXCEPT !.actors =
        Put(@, ActorKey(info.name, node.ident),
            [actor_type |-> node.actor_type,
             args |-> AppInfoArgs(NamedArgs(node)),
             signature |-> _create_signature(lookup(node.actor_type),
                                             node.actor_type)])]

\* self.app_info['connections'].setdefault(key, []).append(value)
AppInfoLink(info, node) ==
    LET key == PortKey(info.name, outport(node))
        value == PortKey(info.name, inport(node))
    IN [info EXCEPT !.connections =
          Put(@, key, IF key \in DOMAIN @ THEN Append(@[key], value) ELSE <<value>>)]

\* AppInfo.visit: the manifest so far, and whether the visit raised
RECURSIVE AppInfoVisit(_, _), AppInfoChildren(_, _, _)
AppInfoChildren(ch, i, r) ==
    IF i > Len(ch) \/ r.raised THEN r
    ELSE AppInfoChildren(ch, i + 1, AppInfoVisit(ch[i], r.info))

AppInfoVisit(node, info) ==
    CASE node.kind = "Assignment" ->
           IF AssignmentRaises(node)
           THEN [info |-> info, raised |-> TRUE]
           ELSE [info |-> AppInfoAssignment(info, node), raised |-> FALSE]
      [] node.kind = "Link" ->
           [info |-> AppInfoLink(info, node), raised |-> FALSE]
      [] OTHER ->
           IF is_leaf(node) THEN [info |-> info, raised |-> FALSE]
           ELSE AppInfoChildren(node.ch, 1, [info |-> info, raised |-> FALSE])

\* AppInfo.__init__
NewAppInfo(script_name) ==
    [name |-> script_name, actors |-> <<>>, connections |-> <<>>, valid |-> TRUE]

----------------------------------------------------------------------------
(* CodeGen.run, pass by pass *)

NoInfo == [name |-> "", actors |-> <<>>, connections |-> <<>>, valid |-> FALSE]

Init ==
    /\ params \in Params
    /\ root = Script(params)
    /\ pc = "start"
    /\ local_components = <<>>
    /\ hist = [start |-> root]
    /\ counter = 0
    /\ constants = <<>>
    /\ printed = <<>>
    /\ issues = <<>>
    /\ app_info = NoInfo

\* for c in components: self.local_components[c.name] = c
CollectedComponents(tree) ==
    LET components == query(tree, "Component", NoAttributes, 1)
    IN [name \in {NodeAt(tree, components[i]).name : i \in DOMAIN components} |->
          LET last == CHOOSE i \in DOMAIN components :
                 /\ NodeAt(tree, components[i]).name = name
                 /\ \A k \in DOMAIN components :
                      NodeAt(tree, components[k]).name = name => k <= i
          IN components[last]]

CollectComponents ==
    /\ pc = "start"
    /\ local_components' = CollectedComponents(root)
    /\ pc' = "collected"
    /\ UNCHANGED <<params, root, hist, counter, constants, printed, issues, app_info>>

ExpandComponents ==
    /\ pc = "collected"
    /\ LET new == Expand(root, local_components)
       IN \/ /\ ~Raised(new)
             /\ root' = new
             /\ pc' = "expanded"
          \/ /\ Raised(new)
             /\ root' = root
             /\ pc' = "crashed"
    /\ hist' = Put(hist, pc', root')
    /\ UNCHANGED <<params, local_components, counter, constants, printed, issues, app_info>>

\* for comp in components: comp.delete()
DeleteComponents(tree) ==
    [tree EXCEPT !.ch = SelectIdx(tree.ch, {i \in DOMAIN tree.ch : tree.ch[i].kind # "Component"})]

RemoveComponents ==
    /\ pc = "expanded"
    /\ root' = DeleteComponents(root)
    /\ pc' = "removed"
    /\ hist' = Put(hist, pc', root')
    /\ UNCHANGED <<params, local_components, counter, constants, printed, issues, app_info>>

RewriteImplicitPorts ==
    /\ pc = "removed"
    /\ LET r == ImplicitVisit(root, 0)
       IN /\ root' = r.node
          /\ counter' = r.counter
    /\ pc' = "rewritten"
    /\ hist' = Put(hist, pc', root')
    /\ UNCHANGED <<params, local_components, constants, printed, issues, app_info>>

FlattenBlocks ==
    /\ pc = "rewritten"
    /\ LET r == Flatten(root)
       IN /\ root' = r.nodes[1]
          /\ constants' = r.constants
          /\ printed' = r.printed
    /\ pc' = "flattened"
    /\ hist' = Put(hist, pc', root')
    /\ UNCHANGED <<params, local_components, counter, issues, app_info>>

ResolvePortmaps ==
    /\ pc = "flattened"
    /\ LET spliced == ResolveInternalInPorts(ResolveInternalOutPorts(root))
       IN \/ /\ ~DeletedTwice(InternalLinks(spliced))
             /\ root' = DeleteInternalLinks(spliced)
             /\ pc' = "resolved"
          \/ /\ DeletedTwice(InternalLinks(spliced))
             /\ \/ /\ root' = root
                   /\ pc' = "crashed"
                \/ /\ root' = DeleteInternalLinks(spliced)
                   /\ pc' = "resolved"
    /\ hist' = Put(hist, pc', root')
    /\ UNCHANGED <<params, local_components, counter, constants, printed, issues, app_info>>

GenAppInfo ==
    /\ pc = "resolved"
    /\ LET r == AppInfoVisit(root, NewAppInfo(ScriptName))
       IN \/ /\ ~r.raised
             /\ app_info' = r.info
             /\ pc' = "done"
          \/ /\ r.raised
             /\ app_info' = app_info
             /\ pc' = "crashed"
    /\ hist' = Put(hist, pc', root)
    /\ UNCHANGED <<params, root, local_components, counter, constants, printed, issues>>

Next ==
    \/ CollectComponents
    \/ ExpandComponents
    \/ RemoveComponents
    \/ RewriteImplicitPorts
    \/ FlattenBlocks
    \/ ResolvePortmaps
    \/ GenAppInfo

Spec == Init /\ [][Next]_vars

----------------------------------------------------------------------------
(* Properties *)

All(tree, kind) == query(tree, kind, NoAttributes, DefaultMaxDepth)

\* the nodes of a kind, in pre-order
Nodes(tree, kind) ==
    LET paths == All(tree, kind) IN [i \in DOMAIN paths |-> NodeAt(tree, paths[i])]

\* "<script>:<actor>.<port>" as the manifest is to hold it
Endpoint(actor, port) == [actor |-> <<ScriptName>> \o actor, port |-> port]

\* the component instances around the inner actor: c, c:n, c:n:n, ...
InstancePath(p) == <<"c">> \o [k \in 1..(p.depth - 1) |-> "n"]

IsInstance(p, actor) ==
    \E k \in 1..p.depth : actor = <<ScriptName>> \o SubSeq(InstancePath(p), 1, k)

Ran(position) == position \in DOMAIN hist

\* C1: a connection that crosses the boundary of a component instance, at any
\* nesting depth, ends at the real inner ports: with .in > i.in and
\* i.out > .out inside, src.out > c.in and c.out > dst.in outside, the
\* manifest connects s:src.out to [s:c:...:i.in] and s:c:...:i.out to
\* [s:dst.in], these are all the connections of a script without literals, and
\* no key and no target names a component instance as an actor.
C1_BoundarySpliced ==
    (pc = "done" /\ params.depth >= 1 /\ ~params.fan /\ params.extra = "none") =>
        LET inner == Append(InstancePath(params), "i")
            conn == app_info.connections
        IN /\ Endpoint(<<"src">>, "out") \in DOMAIN conn
           /\ conn[Endpoint(<<"src">>, "out")] = <<Endpoint(inner, "in")>>
           /\ Endpoint(inner, "out") \in DOMAIN conn
           /\ conn[Endpoint(inner, "out")] = <<Endpoint(<<"dst">>, "in")>>
           /\ params.lit = 0 =>
                 DOMAIN conn = {Endpoint(<<"src">>, "out"), Endpoint(inner, "out")}
           /\ \A key \in DOMAIN conn :
                 /\ ~IsInstance(params, key.actor)
                 /\ \A i \in DOMAIN conn[key] : ~IsInstance(params, conn[key][i].actor)

C1_Witness ==
    /\ pc = "done" /\ params.depth = MaxDepth /\ ~params.fan
    /\ params.extra = "none" /\ params.lit = 0
    /\ All(hist["flattened"], "InternalOutPort") # <<>>
    /\ Endpoint(<<"src">>, "out") \in DOMAIN app_info.connections

\* the assignments of a tree with the namespaces of the blocks around them
RECURSIVE NestedIdents(_, _)
NestedIdents(node, namespaces) ==
    IF node.kind = "Assignment"
    THEN {[name |-> Flat(namespaces) \o node.ident, level |-> Len(namespaces)]}
    ELSE IF is_leaf(node) THEN {}
    ELSE LET inside == IF node.kind = "Block" /\ node.namespace # <<>>
                       THEN Append(namespaces, node.namespace) ELSE namespaces
         IN UNION {NestedIdents(node.ch[i], inside) : i \in DOMAIN node.ch}

\* C2: after Flatten an assignment that was nested in the component instances
\* n1 .. nk has the identifier n1:...:nk:<ident>, with exactly k separators,
\* and its key in the manifest is <script>:n1:...:nk:<ident>.
C2_QualifiedIdents ==
    Ran("flattened") =>
        LET want == NestedIdents(hist["rewritten"], <<>>)
            flat == hist["flattened"]
            assignments == Nodes(flat, "Assignment")
            got == [i \in DOMAIN assignments |-> assignments[i].ident]
        IN /\ Len(got) = Cardinality(want)
           /\ \A w \in want :
                 \E i \in DOMAIN got : got[i] = w.name /\ Len(got[i]) - 1 = w.level
           /\ pc = "done" =>
                 DOMAIN app_info.actors = {<<ScriptName>> \o w.name : w \in want}

C2_Witness ==
    /\ pc = "done" /\ params.depth = 2
    /\ <<ScriptName, "c", "n", "i">> \in DOMAIN app_info.actors
    /\ All(hist["rewritten"], "Block") # <<>>

UsesComponent(tree, components) ==
    LET assignments == Nodes(tree, "Assignment")
    IN \E i \in DOMAIN assignments : assignments[i].actor_type \in DOMAIN components

\* C3: unless a component instantiates itself, directly or through others,
\* one run of the Expander completes and leaves no assignment, anywhere in the
\* tree, whose type is a local component, wherever the components are defined
\* and used; a second run changes nothing.
C3_ExpandedOnce ==
    /\ (params.extra \notin {"self", "mutual"} /\ pc \notin {"start", "collected"})
          => Ran("expanded")
    /\ pc = "expanded" =>
          /\ ~UsesComponent(root, local_components)
          /\ Expand(root, local_components) = root

C3_Witness ==
    /\ pc = "expanded" /\ params.depth = MaxDepth /\ MaxDepth >= 2 /\ ~params.rev
    /\ UsesComponent(hist["start"], local_components)
    /\ LET blocks == Nodes(root, "Block")
       IN \E i \in DOMAIN blocks : blocks[i].namespace = <<"n">>

\* C4: ImplicitPortRewrite over a tree with N implicit ports appends N
\* std.Constant assignments, named _literal_const_1 .. _literal_const_N in
\* pre-order of the implicit ports, each to the block of its link, and puts
\* the port (_literal_const_k, token) in the place of the k-th implicit port.
C4_ImplicitPorts ==
    Ran("rewritten") =>
        LET before == hist["removed"]
            after == hist["rewritten"]
            ips == All(before, "ImplicitPort")
            consts(tree) == query(tree, "Assignment", [actor_type |-> "std.Constant"],
                                  DefaultMaxDepth)
            added == consts(after)
        IN /\ All(after, "ImplicitPort") = <<>>
           /\ Len(added) = Len(consts(before)) + Len(ips)
           /\ Cardinality({NodeAt(after, added[i]).ident : i \in DOMAIN added})
                 = Len(added)
           /\ \A k \in DOMAIN ips :
                 LET name == <<"_literal_const_" \o ToString(k)>>
                     block == Parent(Parent(ips[k]))
                     old == NodeAt(before, block).ch
                     new == NodeAt(after, block).ch
                 IN /\ NodeAt(after, ips[k]) =
                          [kind |-> "Port", actor |-> name, port |-> "token"]
                    /\ Len(new) = Len(old) + Cardinality({j \in DOMAIN ips :
                                                   Parent(Parent(ips[j])) = block})
                    /\ Cardinality({i \in DOMAIN new :
                          /\ i > Len(old)
                          /\ new[i].kind = "Assignment"
                          /\ new[i].ident = name
                          /\ new[i].actor_type = "std.Constant"
                          /\ new[i].ch[1].ch[2] = NodeAt(before, ips[k]).ch[1]}) = 1

C4_Witness ==
    /\ pc = "rewritten" /\ counter = 3 /\ params.depth = 2
    /\ Len(All(hist["removed"], "ImplicitPort")) = 3
    /\ LET ips == All(hist["removed"], "ImplicitPort")
       IN \E i \in DOMAIN ips : Len(ips[i]) > 2

\* C5: the tree the pipeline leaves has no Component, no Block (the root is
\* none), no ImplicitPort, no InternalInPort and no InternalOutPort.
C5_NoTransientKinds ==
    pc \in {"resolved", "done"} =>
        \A kind \in {"Component", "Block", "ImplicitPort",
                     "InternalInPort", "InternalOutPort"} :
            All(root, kind) = <<>>

C5_Witness ==
    /\ pc = "done" /\ params.depth = MaxDepth /\ params.lit > 0
    /\ All(hist["start"], "Component") # <<>>
    /\ All(hist["start"], "ImplicitPort") # <<>>
    /\ All(hist["rewritten"], "Block") # <<>>
    /\ All(hist["flattened"], "InternalInPort") # <<>>
    /\ All(hist["flattened"], "InternalOutPort") # <<>>

Reported(reason) ==
    \E i \in DOMAIN issues : issues[i].type = "error" /\ issues[i].reason = reason

\* C6: the expansion of a script with a component that instantiates itself,
\* directly or through others, stops at the depth cap and reports a
\* RecursiveComponent error.
C6_RecursionReported ==
    (params.extra \in {"self", "mutual"} /\ pc \notin {"start", "collected"}) =>
        /\ pc # "crashed"
        /\ Reported("RecursiveComponent")

\* C7: a NamedArg whose Id is bound neither in the block's args nor in the
\* constants draws a warning and stays as it is, and the pipeline still
\* completes with a manifest that holds the actor.
C7_UnresolvedTolerated ==
    (/\ params.arg = "unbound" /\ params.extra = "none"
     /\ params.leaf \in KnownActorTypes
     /\ pc \in {"done", "crashed"}) =>
        LET actor == IF params.depth = 0 THEN <<"c">>
                     ELSE Append(InstancePath(params), "i")
            at == query(hist["flattened"], "Assignment", [ident |-> actor],
                        DefaultMaxDepth)
        IN /\ "u" \in Range(printed)
           /\ Len(at) = 1
           /\ NodeAt(hist["flattened"], at[1]).ch[1] = NamedArg(Id("a"), Id("u"))
           /\ pc = "done"
           /\ <<ScriptName>> \o actor \in DOMAIN app_info.actors

\* C8: when the actor store does not find the type of an assignment, an
\* UnknownActorType error is recorded and the manifest returned has
\* valid = false; a manifest is valid only when no error was recorded.
C8_UnknownActorInvalid ==
    /\ (/\ params.leaf \notin KnownActorTypes /\ params.arg = "value"
        /\ params.extra = "none"
        /\ pc \in {"done", "crashed"}) =>
           /\ Reported("UnknownActorType")
           /\ pc = "done"
           /\ ~app_info.valid
    /\ (pc = "done" /\ app_info.valid) =>
           ~\E i \in DOMAIN issues : issues[i].type = "error"

\* C9: a literal argument handed to a component instance and passed on by
\* name through any chain of nested components reaches the inner actor: after
\* Flatten its NamedArg holds the Value, and the manifest has args {a: <v>}.
C9_ArgumentsPropagate ==
    (params.arg = "value" /\ params.depth >= 1 /\ Ran("flattened")) =>
        LET leaf == Append(InstancePath(params), "i")
            at == query(hist["flattened"], "Assignment", [ident |-> leaf],
                        DefaultMaxDepth)
        IN /\ Len(at) = 1
           /\ NodeAt(hist["flattened"], at[1]).ch = <<NamedArg(Id("a"), Value(7))>>
           /\ pc = "done" =>
                 app_info.actors[<<ScriptName>> \o leaf].args = [a |-> 7]

C9_Witness ==
    /\ pc = "done" /\ params.arg = "value" /\ params.depth = MaxDepth /\ MaxDepth >= 2
    /\ LET blocks == Nodes(hist["rewritten"], "Block")
       IN \E i \in DOMAIN blocks :
             \E key \in DOMAIN blocks[i].args : blocks[i].args[key].kind = "Id"

\* C10: fan-out across a component boundary is kept: with .in > i.in and
\* .in > j.in inside and src.out > c.in outside, the manifest connects
\* s:src.out to each of the two inner inports, once.
C10_FanOutPreserved ==
    (pc = "done" /\ params.fan /\ params.depth >= 1 /\ params.extra = "none") =>
        LET targets == app_info.connections[Endpoint(<<"src">>, "out")]
            once(e) == Cardinality({i \in DOMAIN targets : targets[i] = e}) = 1
        IN /\ once(Endpoint(Append(InstancePath(params), "i"), "in"))
           /\ once(Endpoint(Append(InstancePath(params), "j"), "in"))

=============================================================================
